---- MODULE Spec2Model ----
(***************************************************************************)
(* Trace-driven out-of-order pipeline simulator: the cycle engine of       *)
(* pipeline.cpp with its ROB (rob.cpp) and RAT (rat.cpp).                   *)
(*                                                                         *)
(* One action per pipeline stage; pc is the position inside pipe_cycle.    *)
(* The run parameters (PIPE_WIDTH, NUM_ROB_ENTRIES, SCHED_POLICY,          *)
(* LOAD_EXE_CYCLES) and the trace are inputs fixed by Init.                *)
(***************************************************************************)
EXTENDS Integers, Sequences, FiniteSets, TLC

\* ------------------------------------------------------------------ bounds
\* Longest trace (records, malformed ones included) of the general inputs.
MaxInsts == 3
\* PIPE_WIDTH is 1 (scalar) or MaxWidth in the general inputs.
MaxWidth == 2
\* NUM_ROB_ENTRIES is 1, 2 or MaxRob in the general inputs.
MaxRob == 3
\* LOAD_EXE_CYCLES is 1 (EXEQ bypassed) or MaxLoad in the general inputs.
MaxLoad == 2
\* The main loop is cut after this many cycles (never reached by a run that
\* halts; a run that would cycle forever stops here with halt still false).
MaxCycles == 60
\* rat.h MAX_ARF_REGS, scaled down from 32: the traces of the model name
\* registers 0 and 1 only, every other RAT entry would stay unaliased.
MAX_ARF_REGS == 2
\* pipeline.h MAX_WRITEBACKS (EX latch slots, EXEQ capacity), scaled down from
\* 256: no run of the model has more instructions in flight than this.
MAX_WRITEBACKS == 4
\* The ROB driven call by call (RobSpec) takes at most this many instructions.
MaxRobInserts == 5

\* ------------------------------------------------------- program constants
\* pipeline.cpp pipe_init: (uint64_t)(-1) - 3, "no halt target yet"; any
\* value above every instruction number behaves the same
HALT_INST_NUM_INIT == 2147483644

\* trace.h OpType: op 0 is a single-cycle operation, OP_LD the load class,
\* NUM_OP_TYPES the first invalid value.
OP_ALU == 0
OP_LD == 1
NUM_OP_TYPES == 5

\* pipeline.h SchedulingPolicy
SCHED_IN_ORDER == 0
SCHED_OUT_OF_ORDER == 1

VARIABLES
    PIPE_WIDTH,        \* extern uint32_t PIPE_WIDTH
    NUM_ROB_ENTRIES,   \* extern uint32_t NUM_ROB_ENTRIES
    SCHED_POLICY,      \* extern SchedulingPolicy SCHED_POLICY
    LOAD_EXE_CYCLES,   \* extern uint32_t LOAD_EXE_CYCLES
    trace,             \* the records behind trace_fd
    trace_pos,         \* read offset of trace_fd, in records
    p,                 \* the Pipeline struct (with *rob, *rat, *exeq)
    next_inst_num,     \* static local of pipe_cycle_decode
    pc,                \* position in the main loop / pipe_cycle
    h                  \* history: commit log, per-instruction stage cycles

vars == <<PIPE_WIDTH, NUM_ROB_ENTRIES, SCHED_POLICY, LOAD_EXE_CYCLES,
          trace, trace_pos, p, next_inst_num, pc, h>>

\* ------------------------------------------------------------- data types
\* InstInfo after calloc (all bytes zero)
ZeroInst ==
    [inst_num |-> 0, op_type |-> 0, dest_reg |-> 0, src1_reg |-> 0,
     src2_reg |-> 0, dr_tag |-> 0, src1_tag |-> 0, src2_tag |-> 0,
     src1_ready |-> FALSE, src2_ready |-> FALSE, exe_wait_cycles |-> 0]

\* PipelineLatch after calloc
ZeroLatch == [valid |-> FALSE, stall |-> FALSE, inst |-> ZeroInst]

\* ROBEntry after rob_init
ZeroROBEntry == [valid |-> FALSE, exec |-> FALSE, ready |-> FALSE, inst |-> ZeroInst]

\* A TraceRec
Rec(op, dn, d, s1n, s1, s2n, s2) ==
    [op_type |-> op, dest_needed |-> dn, dest_reg |-> d,
     src1_needed |-> s1n, src1_reg |-> s1, src2_needed |-> s2n, src2_reg |-> s2]

\* ------------------------------------------------------------------- RAT
rat_init == [entries |-> [r \in 0..(MAX_ARF_REGS - 1) |-> [valid |-> FALSE, prf_id |-> 0]]]

\* rat->entries[arf_id] for an index inside the array
rat_get_remap(rat, arf_id) ==
    IF rat.entries[arf_id].valid THEN rat.entries[arf_id].prf_id ELSE -1

\* mutant: an entry already aliased keeps its alias
rat_set_remap_keep(rat, arf_id, prf_id) ==
    IF rat.entries[arf_id].valid THEN rat
    ELSE [rat EXCEPT !.entries[arf_id] = [valid |-> TRUE, prf_id |-> prf_id]]

rat_set_remap(rat, arf_id, prf_id) ==
    [rat EXCEPT !.entries[arf_id] = [valid |-> TRUE, prf_id |-> prf_id]]

rat_reset_entry(rat, arf_id) ==
    [rat EXCEPT !.entries[arf_id].valid = FALSE]

\* ------------------------------------------------------------------- ROB
rob_init ==
    [entries |-> [i \in 0..(NUM_ROB_ENTRIES - 1) |-> ZeroROBEntry],
     head_ptr |-> 0, tail_ptr |-> 0]

\* mutant: the ROB always has space
rob_check_space_always(rob) == TRUE

\* mutant: head == tail always read as "full"
rob_check_space_ptrs_only(rob) == rob.tail_ptr # rob.head_ptr

rob_check_space(rob) ==
    IF rob.tail_ptr = rob.head_ptr
    THEN IF rob.entries[rob.head_ptr].valid = FALSE THEN TRUE ELSE FALSE
    ELSE TRUE

\* mutant: the entry is written without the test for space
rob_insert_no_check(rob, inst) ==
    LET idx == rob.tail_ptr IN
    [rob |-> [rob EXCEPT
                !.entries[idx] = [valid |-> TRUE, exec |-> FALSE,
                                  ready |-> FALSE, inst |-> inst],
                !.tail_ptr = (rob.tail_ptr + 1) % NUM_ROB_ENTRIES],
     ret |-> idx]

\* rob_insert returns the pair (rob after the call, return value)
rob_insert(rob, inst) ==
    IF rob_check_space(rob)
    THEN LET idx == rob.tail_ptr IN
         [rob |-> [rob EXCEPT
                     !.entries[idx] = [valid |-> TRUE, exec |-> FALSE,
                                       ready |-> FALSE, inst |-> inst],
                     !.tail_ptr = (rob.tail_ptr + 1) % NUM_ROB_ENTRIES],
          ret |-> idx]
    ELSE [rob |-> rob, ret |-> -1]

\* mutant: exec never set
rob_mark_exec_noop(rob, inst) == rob

\* mutant: schedule marks the entry ready as well
rob_mark_exec_and_ready(rob, inst) ==
    [rob EXCEPT !.entries[inst.dr_tag].exec = TRUE,
                !.entries[inst.dr_tag].ready = TRUE]

rob_mark_exec(rob, inst) ==
    [rob EXCEPT !.entries[inst.dr_tag].exec = TRUE]

rob_mark_ready(rob, inst) ==
    [rob EXCEPT !.entries[inst.dr_tag].ready = TRUE]

rob_check_ready(rob, tag) ==
    IF rob.entries[tag].valid /\ rob.entries[tag].ready THEN TRUE ELSE FALSE

rob_check_head(rob) ==
    IF rob_check_ready(rob, rob.head_ptr) THEN TRUE ELSE FALSE

\* mutant: the broadcast wakes the sources of every valid entry
rob_wakeup_slot_any(rob, i, tag) ==
    IF rob.entries[i].valid
    THEN [rob EXCEPT !.entries[i].inst.src1_ready = TRUE,
                     !.entries[i].inst.src2_ready = TRUE]
    ELSE rob

\* mutant: the broadcast is matched against src1_tag only
rob_wakeup_slot_src1(rob, i, tag) ==
    LET e == rob.entries[i] IN
    [rob EXCEPT !.entries[i].inst.src1_ready =
                   IF e.valid /\ e.inst.src1_tag = tag THEN TRUE ELSE e.inst.src1_ready]

\* one iteration of the body of rob_wakeup's do-while at slot i
rob_wakeup_slot(rob, i, tag) ==
    LET e == rob.entries[i]
        s1 == IF e.valid /\ e.inst.src1_tag = tag THEN TRUE ELSE e.inst.src1_ready
        s2 == IF e.valid /\ e.inst.src2_tag = tag THEN TRUE ELSE e.inst.src2_ready
    IN [rob EXCEPT !.entries[i].inst.src1_ready = s1,
                   !.entries[i].inst.src2_ready = s2]

\* do { body(i); i = (i+1) % NUM_ROB_ENTRIES; } while (i != tail);
RECURSIVE rob_wakeup_from(_, _, _)
rob_wakeup_from(rob, i, tag) ==
    LET r == rob_wakeup_slot(rob, i, tag)
        n == (i + 1) % NUM_ROB_ENTRIES
    IN IF n # rob.tail_ptr THEN rob_wakeup_from(r, n, tag) ELSE r

\* mutant: while (i != tail) instead of do-while, nothing visited when
\* head == tail
rob_wakeup_while(rob, tag) ==
    IF rob.head_ptr = rob.tail_ptr THEN rob ELSE rob_wakeup_from(rob, rob.head_ptr, tag)

rob_wakeup(rob, tag) == rob_wakeup_from(rob, rob.head_ptr, tag)

\* rob_remove_head: the pair (rob after the call, headEntry). headEntry is
\* left unassigned when the head is not valid and ready; the only caller
\* tests rob_check_head first, so that branch is never taken (UnsetInst
\* marks it).
UnsetInst == [ZeroInst EXCEPT !.inst_num = -1]

\* mutant: the exec and ready flags of the head slot are not cleared
rob_remove_head_keep_flags(rob) ==
    LET hd == rob.head_ptr IN
    IF rob.entries[hd].valid /\ rob.entries[hd].ready
    THEN [rob |-> [rob EXCEPT !.entries[hd].valid = FALSE,
                              !.head_ptr = (hd + 1) % NUM_ROB_ENTRIES],
          ret |-> rob.entries[hd].inst]
    ELSE [rob |-> rob, ret |-> UnsetInst]

\* mutant: the head slot is left valid
rob_remove_head_keep_valid(rob) ==
    LET hd == rob.head_ptr IN
    IF rob.entries[hd].valid /\ rob.entries[hd].ready
    THEN [rob |-> [rob EXCEPT !.entries[hd].exec = FALSE,
                              !.entries[hd].ready = FALSE,
                              !.head_ptr = (hd + 1) % NUM_ROB_ENTRIES],
          ret |-> rob.entries[hd].inst]
    ELSE [rob |-> rob, ret |-> UnsetInst]

rob_remove_head(rob) ==
    LET hd == rob.head_ptr IN
    IF rob.entries[hd].valid /\ rob.entries[hd].ready
    THEN [rob |-> [rob EXCEPT !.entries[hd].valid = FALSE,
                              !.entries[hd].exec = FALSE,
                              !.entries[hd].ready = FALSE,
                              !.head_ptr = (hd + 1) % NUM_ROB_ENTRIES],
          ret |-> rob.entries[hd].inst]
    ELSE [rob |-> rob, ret |-> UnsetInst]

\* ------------------------------------------------------------ the engine
\* The state the stage functions work on, threaded through their loops.
State == [p |-> p, h |-> h, trace_pos |-> trace_pos, next_inst_num |-> next_inst_num]

\* mutant: halt is set only when stat_retired_inst exceeds halt_inst_num
pipe_fetch_inst_strict(st, i) ==
    LET eof == st.trace_pos > Len(trace)
        trace_rec == IF eof THEN Rec(0, FALSE, 0, FALSE, 0, FALSE, 0)
                     ELSE trace[st.trace_pos]
        pos == IF eof THEN st.trace_pos ELSE st.trace_pos + 1
    IN
    IF eof \/ trace_rec.op_type >= NUM_OP_TYPES
    THEN LET hin == st.p.last_inst_num
             hlt == IF st.p.stat_retired_inst > hin THEN TRUE ELSE st.p.halt
         IN [st EXCEPT !.p.FE_latch[i].valid = FALSE,
                       !.p.halt_inst_num = hin,
                       !.p.halt = hlt,
                       !.trace_pos = pos,
                       !.h.trace_err = (st.h.trace_err \/ ~eof)]
    ELSE LET n == st.p.last_inst_num + 1
             inst == [inst_num |-> n,
                      op_type |-> trace_rec.op_type,
                      dest_reg |-> IF trace_rec.dest_needed THEN trace_rec.dest_reg ELSE -1,
                      src1_reg |-> IF trace_rec.src1_needed THEN trace_rec.src1_reg ELSE -1,
                      src2_reg |-> IF trace_rec.src2_needed THEN trace_rec.src2_reg ELSE -1,
                      dr_tag |-> -1, src1_tag |-> -1, src2_tag |-> -1,
                      src1_ready |-> FALSE, src2_ready |-> FALSE,
                      exe_wait_cycles |-> 0]
         IN [st EXCEPT !.p.FE_latch[i] = [valid |-> TRUE, stall |-> FALSE, inst |-> inst],
                       !.p.last_inst_num = n,
                       !.trace_pos = pos,
                       !.h.when[n].fetch = st.p.stat_num_cycle,
                       !.h.slot[n].fe = i,
                       !.h.rec[n] = trace_rec]

\* pipe_fetch_inst(p, &p->FE_latch[i]).  A read past the last record leaves
\* bytes_left > 0 (end of file, or a truncated last record: the two differ
\* only in the message printed); a record with op_type >= NUM_OP_TYPES is
\* consumed and takes the same branch.
pipe_fetch_inst(st, i) ==
    LET eof == st.trace_pos > Len(trace)
        trace_rec == IF eof THEN Rec(0, FALSE, 0, FALSE, 0, FALSE, 0)
                     ELSE trace[st.trace_pos]
        pos == IF eof THEN st.trace_pos ELSE st.trace_pos + 1
    IN
    IF eof \/ trace_rec.op_type >= NUM_OP_TYPES
    THEN LET hin == st.p.last_inst_num
             hlt == IF st.p.stat_retired_inst >= hin THEN TRUE ELSE st.p.halt
         IN [st EXCEPT !.p.FE_latch[i].valid = FALSE,
                       !.p.halt_inst_num = hin,
                       !.p.halt = hlt,
                       !.trace_pos = pos,
                       !.h.trace_err = (st.h.trace_err \/ ~eof)]
    ELSE LET n == st.p.last_inst_num + 1
             inst == [inst_num |-> n,
                      op_type |-> trace_rec.op_type,
                      dest_reg |-> IF trace_rec.dest_needed THEN trace_rec.dest_reg ELSE -1,
                      src1_reg |-> IF trace_rec.src1_needed THEN trace_rec.src1_reg ELSE -1,
                      src2_reg |-> IF trace_rec.src2_needed THEN trace_rec.src2_reg ELSE -1,
                      dr_tag |-> -1, src1_tag |-> -1, src2_tag |-> -1,
                      src1_ready |-> FALSE, src2_ready |-> FALSE,
                      exe_wait_cycles |-> 0]
         IN [st EXCEPT !.p.FE_latch[i] = [valid |-> TRUE, stall |-> FALSE, inst |-> inst],
                       !.p.last_inst_num = n,
                       !.trace_pos = pos,
                       !.h.when[n].fetch = st.p.stat_num_cycle,
                       !.h.slot[n].fe = i,
                       !.h.rec[n] = trace_rec]

\* pipe_cycle_fetch: lanes i .. PIPE_WIDTH-1
RECURSIVE fetch_from(_, _)
fetch_from(st, i) ==
    IF i >= PIPE_WIDTH THEN st
    ELSE fetch_from(IF ~st.p.FE_latch[i].stall /\ ~st.p.FE_latch[i].valid
                    THEN pipe_fetch_inst(st, i) ELSE st,
                    i + 1)

pipe_cycle_fetch(st) == fetch_from(st, 0)

\* mutant: the search takes the first valid FE latch, whatever its inst_num
RECURSIVE decode_search_any(_, _, _)
decode_search_any(st, i, j) ==
    IF j >= PIPE_WIDTH THEN st
    ELSE IF st.p.FE_latch[j].valid
         THEN [st EXCEPT !.p.ID_latch[i] = st.p.FE_latch[j],
                         !.p.FE_latch[j].valid = FALSE,
                         !.next_inst_num = st.next_inst_num + 1,
                         !.h.when[st.p.FE_latch[j].inst.inst_num].decode = st.p.stat_num_cycle]
         ELSE decode_search_any(st, i, j + 1)

\* pipe_cycle_decode: the inner search over FE lanes j .. PIPE_WIDTH-1 for
\* ID lane i
RECURSIVE decode_search(_, _, _)
decode_search(st, i, j) ==
    IF j >= PIPE_WIDTH THEN st
    ELSE IF st.p.FE_latch[j].valid /\ st.p.FE_latch[j].inst.inst_num = st.next_inst_num
         THEN [st EXCEPT !.p.ID_latch[i] = st.p.FE_latch[j],
                         !.p.FE_latch[j].valid = FALSE,
                         !.next_inst_num = st.next_inst_num + 1,
                         !.h.when[st.next_inst_num].decode = st.p.stat_num_cycle]
         ELSE decode_search(st, i, j + 1)

RECURSIVE decode_from(_, _)
decode_from(st, i) ==
    IF i >= PIPE_WIDTH THEN st
    ELSE decode_from(IF ~st.p.ID_latch[i].stall /\ ~st.p.ID_latch[i].valid
                     THEN decode_search(st, i, 0) ELSE st,
                     i + 1)

\* mutant: decode runs after the fetch of the same cycle
pipe_cycle_decode_after_fetch(st) == decode_from(fetch_from(st, 0), 0)

\* mutant: only ID latch 0 is filled
pipe_cycle_decode_lane0(st) ==
    IF ~st.p.ID_latch[0].stall /\ ~st.p.ID_latch[0].valid THEN decode_search(st, 0, 0) ELSE st

pipe_cycle_decode(st) == decode_from(st, 0)

\* pipe_cycle_issue, lines 393-404: the bubble sort of the ID latches by
\* inst_num (whole latches are swapped, valid or not)
\* mutant: the swap without the temporary, ID[j + 1] gets the new ID[j]
RECURSIVE sort_inner_no_temp(_, _, _)
sort_inner_no_temp(ID, i, j) ==
    IF j >= PIPE_WIDTH - i - 1 THEN ID
    ELSE sort_inner_no_temp(IF ID[j].inst.inst_num > ID[j + 1].inst.inst_num
                            THEN [ID EXCEPT ![j] = ID[j + 1]]
                            ELSE ID,
                            i, j + 1)

RECURSIVE sort_inner(_, _, _)
sort_inner(ID, i, j) ==
    IF j >= PIPE_WIDTH - i - 1 THEN ID
    ELSE sort_inner(IF ID[j].inst.inst_num > ID[j + 1].inst.inst_num
                    THEN [ID EXCEPT ![j] = ID[j + 1], ![j + 1] = ID[j]]
                    ELSE ID,
                    i, j + 1)

RECURSIVE sort_outer(_, _)
sort_outer(ID, i) ==
    IF i >= PIPE_WIDTH - 1 THEN ID
    ELSE sort_outer(sort_inner(ID, i, 0), i + 1)

\* mutant: the ID latches are not sorted
sort_ID_latch_none(ID) == ID

sort_ID_latch(ID) == sort_outer(ID, 0)

\* mutant: a needed source is marked ready whatever its producer
rename_src_ready(rob, rat, idx, which) ==
    LET inst == rob.entries[idx].inst
        reg == IF which = 1 THEN inst.src1_reg ELSE inst.src2_reg
    IN IF reg # -1
       THEN IF which = 1
            THEN [rob EXCEPT !.entries[idx].inst.src1_tag = rat_get_remap(rat, reg),
                             !.entries[idx].inst.src1_ready = TRUE]
            ELSE [rob EXCEPT !.entries[idx].inst.src2_tag = rat_get_remap(rat, reg),
                             !.entries[idx].inst.src2_ready = TRUE]
       ELSE rob

\* lines 427-453: source renaming of the entry just inserted at idx; which
\* is 1 or 2
rename_src(rob, rat, idx, which) ==
    LET inst == rob.entries[idx].inst
        reg == IF which = 1 THEN inst.src1_reg ELSE inst.src2_reg
    IN IF reg # -1
       THEN LET tag == rat_get_remap(rat, reg)
                rdy == IF tag = -1 \/ rob_check_ready(rob, tag) THEN TRUE ELSE FALSE
            IN IF which = 1
               THEN [rob EXCEPT !.entries[idx].inst.src1_tag = tag,
                                !.entries[idx].inst.src1_ready = rdy]
               ELSE [rob EXCEPT !.entries[idx].inst.src2_tag = tag,
                                !.entries[idx].inst.src2_ready = rdy]
       ELSE rob

\* mutant: the RAT is aliased to the new entry before its sources are renamed
issue_insert_rat_first(st, i) ==
    LET ins == rob_insert(st.p.rob, st.p.ID_latch[i].inst)
        idx == ins.ret
    IN IF idx # -1
       THEN LET dest == ins.rob.entries[idx].inst.dest_reg
                rat1 == IF dest # -1 THEN rat_set_remap(st.p.rat, dest, idx) ELSE st.p.rat
                rob1 == rename_src(ins.rob, rat1, idx, 1)
                rob2 == rename_src(rob1, rat1, idx, 2)
                rob3 == [rob2 EXCEPT !.entries[idx].inst.dr_tag = idx]
            IN [st EXCEPT !.p.ID_latch[i].valid = FALSE,
                          !.p.rob = rob3,
                          !.p.rat = rat1,
                          !.h.when[rob3.entries[idx].inst.inst_num].issue = st.p.stat_num_cycle,
                          !.h.slot[rob3.entries[idx].inst.inst_num].rob = idx]
       ELSE [st EXCEPT !.p.rob = ins.rob]

\* lines 418-463: the body for a valid, unstalled ID lane i when the ROB has space
issue_insert(st, i) ==
    LET ins == rob_insert(st.p.rob, st.p.ID_latch[i].inst)
        idx == ins.ret
    IN IF idx # -1
       THEN LET rob1 == rename_src(ins.rob, st.p.rat, idx, 1)
                rob2 == rename_src(rob1, st.p.rat, idx, 2)
                rob3 == [rob2 EXCEPT !.entries[idx].inst.dr_tag = idx]
                dest == rob3.entries[idx].inst.dest_reg
                rat1 == IF dest # -1
                        THEN rat_set_remap(st.p.rat, dest, rob3.entries[idx].inst.dr_tag)
                        ELSE st.p.rat
                used == {rob3.entries[idx].inst.src1_reg, rob3.entries[idx].inst.src2_reg,
                         dest} \ {-1}
            IN [st EXCEPT !.p.ID_latch[i].valid = FALSE,
                          !.p.rob = rob3,
                          !.p.rat = rat1,
                          !.h.when[rob3.entries[idx].inst.inst_num].issue = st.p.stat_num_cycle,
                          !.h.slot[rob3.entries[idx].inst.inst_num].rob = idx,
                          !.h.rat_idx = st.h.rat_idx \cup used]
       ELSE [st EXCEPT !.p.rob = ins.rob]

\* mutant: a lane that finds the ROB without space is not marked stalled
RECURSIVE issue_from_no_stall(_, _, _)
issue_from_no_stall(st, i, prev_ID_stall) ==
    IF i >= PIPE_WIDTH THEN st
    ELSE LET st1 == [st EXCEPT !.p.ID_latch[i].stall = prev_ID_stall] IN
         IF st1.p.ID_latch[i].stall = TRUE
         THEN issue_from_no_stall(st1, i + 1, prev_ID_stall)
         ELSE IF st1.p.ID_latch[i].valid = TRUE /\ st1.p.ID_latch[i].stall = FALSE
              THEN LET st2 == IF rob_check_space(st1.p.rob)
                              THEN issue_insert(st1, i)
                              ELSE st1
                   IN issue_from_no_stall(st2, i + 1, st2.p.ID_latch[i].stall)
              ELSE issue_from_no_stall(st1, i + 1, prev_ID_stall)

\* lines 409-471: lanes i .. PIPE_WIDTH-1 with the running prev_ID_stall
RECURSIVE issue_from(_, _, _)
issue_from(st, i, prev_ID_stall) ==
    IF i >= PIPE_WIDTH THEN st
    ELSE LET st1 == [st EXCEPT !.p.ID_latch[i].stall = prev_ID_stall] IN
         IF st1.p.ID_latch[i].stall = TRUE
         THEN issue_from(st1, i + 1, prev_ID_stall)
         ELSE IF st1.p.ID_latch[i].valid = TRUE /\ st1.p.ID_latch[i].stall = FALSE
              THEN LET st2 == IF rob_check_space(st1.p.rob)
                              THEN issue_insert(st1, i)
                              ELSE [st1 EXCEPT !.p.ID_latch[i].stall = TRUE]
                   IN issue_from(st2, i + 1, st2.p.ID_latch[i].stall)
              ELSE issue_from(st1, i + 1, prev_ID_stall)

pipe_cycle_issue(st) ==
    issue_from([st EXCEPT !.p.ID_latch = sort_ID_latch(st.p.ID_latch)], 0, FALSE)

\* mutant: src1 is not waited for
srcs_ready_src2_only(rob, j) ==
    LET inst == rob.entries[j].inst IN inst.src2_reg = -1 \/ inst.src2_ready

\* pipe_cycle_schedule: "both sources ready" of ROB entry j (lines 494-496, 528-530)
srcs_ready(rob, j) ==
    LET inst == rob.entries[j].inst
        src1_ready == (inst.src1_reg = -1 \/ inst.src1_ready)
        src2_ready == (inst.src2_reg = -1 \/ inst.src2_ready)
    IN ~(src1_ready = FALSE \/ src2_ready = FALSE)

\* lines 504-506: send ROB entry j to SC lane i
sched_send(st, i, j) ==
    LET rob1 == rob_mark_exec(st.p.rob, st.p.rob.entries[j].inst) IN
    [st EXCEPT !.p.rob = rob1,
               !.p.SC_latch[i].inst = rob1.entries[j].inst,
               !.p.SC_latch[i].valid = TRUE,
               !.h.when[rob1.entries[j].inst.inst_num].schedule = st.p.stat_num_cycle]

\* mutant: the in-order scan passes over an entry that is not ready
RECURSIVE sched_in_order_scan_skip(_, _, _)
sched_in_order_scan_skip(st, i, j) ==
    IF st.p.rob.entries[j].valid = TRUE /\ st.p.rob.entries[j].exec = FALSE
       /\ srcs_ready(st.p.rob, j)
    THEN sched_send(st, i, j)
    ELSE LET n == (j + 1) % NUM_ROB_ENTRIES IN
         IF n # st.p.rob.tail_ptr THEN sched_in_order_scan_skip(st, i, n) ELSE st

\* lines 487-512: the do-while of lane i under SCHED_IN_ORDER, from slot j
RECURSIVE sched_in_order_scan(_, _, _)
sched_in_order_scan(st, i, j) ==
    IF st.p.rob.entries[j].valid = TRUE /\ st.p.rob.entries[j].exec = FALSE
    THEN IF ~srcs_ready(st.p.rob, j)
         THEN [st EXCEPT !.p.SC_latch[i].valid = FALSE]
         ELSE sched_send(st, i, j)
    ELSE LET n == (j + 1) % NUM_ROB_ENTRIES IN
         IF n # st.p.rob.tail_ptr THEN sched_in_order_scan(st, i, n) ELSE st

\* mutant: the out-of-order scan stops at the first entry that is not ready
sched_out_of_order_scan_block(st, i, j) == sched_in_order_scan(st, i, j)

\* lines 521-546: the do-while of lane i under SCHED_OUT_OF_ORDER, from slot j
RECURSIVE sched_out_of_order_scan(_, _, _)
sched_out_of_order_scan(st, i, j) ==
    LET cand == st.p.rob.entries[j].valid = TRUE /\ st.p.rob.entries[j].exec = FALSE IN
    IF cand /\ srcs_ready(st.p.rob, j)
    THEN sched_send(st, i, j)
    ELSE LET st1 == IF cand THEN [st EXCEPT !.p.SC_latch[i].valid = FALSE] ELSE st
             n == (j + 1) % NUM_ROB_ENTRIES
         IN IF n # st1.p.rob.tail_ptr THEN sched_out_of_order_scan(st1, i, n) ELSE st1

RECURSIVE schedule_from(_, _)
schedule_from(st, i) ==
    IF i >= PIPE_WIDTH THEN st
    ELSE schedule_from(IF SCHED_POLICY = SCHED_IN_ORDER
                       THEN sched_in_order_scan(st, i, st.p.rob.head_ptr)
                       ELSE sched_out_of_order_scan(st, i, st.p.rob.head_ptr),
                       i + 1)

pipe_cycle_schedule(st) == schedule_from(st, 0)

\* ------------------------------------------------------------------ EXEQ
\* The execution queue: the set of instructions in execution, each with its
\* remaining cycles in exe_wait_cycles.
exeq_init == {}

\* the pair (exeq after the call, return value)
exeq_insert(exeq, inst) ==
    IF Cardinality(exeq) >= MAX_WRITEBACKS
    THEN [exeq |-> exeq, ret |-> FALSE]
    ELSE [exeq |-> exeq \cup
                   {[inst EXCEPT !.exe_wait_cycles =
                        IF inst.op_type = OP_LD THEN LOAD_EXE_CYCLES ELSE 1]},
          ret |-> TRUE]

exeq_cycle(exeq) ==
    {[e EXCEPT !.exe_wait_cycles = IF e.exe_wait_cycles > 0 THEN e.exe_wait_cycles - 1 ELSE 0]
       : e \in exeq}

exeq_check_done(exeq) == \E e \in exeq : e.exe_wait_cycles = 0

\* the done entry exeq_remove takes: the smallest instruction number
exeq_next_done(exeq) ==
    CHOOSE e \in exeq : /\ e.exe_wait_cycles = 0
                        /\ \A f \in exeq : f.exe_wait_cycles = 0 => e.inst_num <= f.inst_num

\* the pair (exeq after the call, the instruction removed)
exeq_remove(exeq) ==
    LET e == exeq_next_done(exeq) IN [exeq |-> exeq \ {e}, ret |-> e]

\* ------------------------------------------------------------- execute
\* mutant: the SC latch is left valid after the copy
RECURSIVE exe_copy_from_keep_sc(_, _)
exe_copy_from_keep_sc(st, i) ==
    IF i >= PIPE_WIDTH THEN st
    ELSE exe_copy_from_keep_sc(
           IF st.p.SC_latch[i].valid
           THEN [st EXCEPT !.p.EX_latch[i] = st.p.SC_latch[i],
                           !.h.when[st.p.SC_latch[i].inst.inst_num].exe = st.p.stat_num_cycle]
           ELSE st,
           i + 1)

\* pipe_cycle_exe, lines 343-351 (LOAD_EXE_CYCLES == 1)
RECURSIVE exe_copy_from(_, _)
exe_copy_from(st, i) ==
    IF i >= PIPE_WIDTH THEN st
    ELSE exe_copy_from(
           IF st.p.SC_latch[i].valid
           THEN [st EXCEPT !.p.EX_latch[i] = st.p.SC_latch[i],
                           !.p.SC_latch[i].valid = FALSE,
                           !.h.when[st.p.SC_latch[i].inst.inst_num].exe = st.p.stat_num_cycle]
           ELSE st,
           i + 1)

\* lines 375-380: done entries of the EXEQ into EX latches i, i+1, ...
RECURSIVE exe_drain_from(_, _)
exe_drain_from(st, i) ==
    IF i < MAX_WRITEBACKS /\ exeq_check_done(st.p.exeq)
    THEN LET rm == exeq_remove(st.p.exeq) IN
         exe_drain_from([st EXCEPT !.p.EX_latch[i] =
                                      [valid |-> TRUE, stall |-> FALSE, inst |-> rm.ret],
                                   !.p.exeq = rm.exeq],
                        i + 1)
    ELSE st

\* lines 356-380: SC lanes i .. PIPE_WIDTH-1 into the EXEQ, then cycle and
\* drain; a full EXEQ sets halt and returns at once
RECURSIVE exe_insert_from(_, _)
exe_insert_from(st, i) ==
    IF i >= PIPE_WIDTH
    THEN exe_drain_from([st EXCEPT !.p.exeq = exeq_cycle(st.p.exeq)], 0)
    ELSE IF st.p.SC_latch[i].valid
         THEN LET ins == exeq_insert(st.p.exeq, st.p.SC_latch[i].inst) IN
              IF ~ins.ret
              THEN [st EXCEPT !.p.halt = TRUE, !.h.exeq_full = TRUE]
              ELSE exe_insert_from(
                     [st EXCEPT !.p.exeq = ins.exeq,
                                !.p.SC_latch[i].valid = FALSE,
                                !.h.when[st.p.SC_latch[i].inst.inst_num].exe = st.p.stat_num_cycle],
                     i + 1)
         ELSE exe_insert_from(st, i + 1)

\* mutant: the SC latches are copied to the EX latches whatever the latency
pipe_cycle_exe_bypass(st) == exe_copy_from(st, 0)

pipe_cycle_exe(st) ==
    IF LOAD_EXE_CYCLES = 1 THEN exe_copy_from(st, 0) ELSE exe_insert_from(st, 0)

\* ------------------------------------------------------------ writeback
RECURSIVE writeback_from(_, _)
writeback_from(st, i) ==
    IF i >= MAX_WRITEBACKS THEN st
    ELSE writeback_from(
           IF st.p.EX_latch[i].stall = FALSE /\ st.p.EX_latch[i].valid = TRUE
           THEN LET inst == st.p.EX_latch[i].inst
                    rob1 == rob_wakeup(st.p.rob, inst.dr_tag)
                    rob2 == rob_mark_ready(rob1, inst)
                IN [st EXCEPT !.p.rob = rob2,
                              !.p.EX_latch[i].valid = FALSE,
                              !.h.wb_tags = st.h.wb_tags \cup {inst.dr_tag},
                              !.h.when[inst.inst_num].writeback = st.p.stat_num_cycle]
           ELSE st,
           i + 1)

pipe_cycle_writeback(st) == writeback_from([st EXCEPT !.h.wb_tags = {}], 0)

\* --------------------------------------------------------------- commit
\* pipe_commit_inst
pipe_commit_inst(st, inst) ==
    [st EXCEPT !.p.stat_retired_inst = st.p.stat_retired_inst + 1,
               !.p.halt = IF inst.inst_num >= st.p.halt_inst_num THEN TRUE ELSE st.p.halt,
               !.h.commit_log = Append(st.h.commit_log, inst.inst_num),
               !.h.when[inst.inst_num].commit = st.p.stat_num_cycle]

\* mutant: the RAT entry is never reset at commit
commit_rat_update_none(st, headEntry, oob) == [st |-> st, oob |-> oob]

\* mutant: the RAT entry of the destination is reset whatever its alias
commit_rat_update_always(st, headEntry, oob) ==
    [st |-> IF headEntry.dest_reg = -1 THEN st
            ELSE [st EXCEPT !.p.rat = rat_reset_entry(st.p.rat, headEntry.dest_reg)],
     oob |-> oob]

\* lines 591-595.  For dest_reg == -1 the code indexes rat->entries[-1]: the
\* read yields whatever lies before the array (oob, a RATEntry-shaped view of
\* it) and a reset writes there, outside every RAT entry.
commit_rat_update(st, headEntry, oob) ==
    IF headEntry.dest_reg = -1
    THEN LET idx == IF oob.valid THEN oob.prf_id ELSE -1 IN
         [st |-> [st EXCEPT !.h.rat_oob = TRUE,
                            !.h.rat_idx = st.h.rat_idx \cup {headEntry.dest_reg}],
          oob |-> IF idx = headEntry.dr_tag THEN [oob EXCEPT !.valid = FALSE] ELSE oob]
    ELSE LET idx == rat_get_remap(st.p.rat, headEntry.dest_reg)
             st1 == [st EXCEPT !.h.rat_idx = st.h.rat_idx \cup {headEntry.dest_reg}]
         IN
         [st |-> IF idx = headEntry.dr_tag
                 THEN [st1 EXCEPT !.p.rat = rat_reset_entry(st.p.rat, headEntry.dest_reg)]
                 ELSE st1,
          oob |-> oob]

\* lines 581-605: iterations i .. PIPE_WIDTH-1
RECURSIVE commit_from(_, _, _)
commit_from(st, i, oob) ==
    IF i >= PIPE_WIDTH THEN st
    ELSE IF rob_check_head(st.p.rob)
         THEN LET rm == rob_remove_head(st.p.rob)
                  st1 == pipe_commit_inst([st EXCEPT !.p.rob = rm.rob], rm.ret)
                  upd == commit_rat_update(st1, rm.ret, oob)
                  st2 == [upd.st EXCEPT !.p.ID_latch[i].stall =
                             IF rob_check_space(upd.st.p.rob) THEN FALSE ELSE TRUE]
              IN commit_from(st2, i + 1, upd.oob)
         ELSE commit_from(st, i + 1, oob)

\* mutant: the commit loop goes on while the head is ready
RECURSIVE commit_all_from(_, _)
commit_all_from(st, oob) ==
    IF rob_check_head(st.p.rob)
    THEN LET rm == rob_remove_head(st.p.rob)
             st1 == pipe_commit_inst([st EXCEPT !.p.rob = rm.rob], rm.ret)
         IN commit_all_from(commit_rat_update(st1, rm.ret, oob).st, oob)
    ELSE st

pipe_cycle_commit_unbounded(st, oob) == commit_all_from(st, oob)

pipe_cycle_commit(st, oob) == commit_from(st, 0, oob)

\* ---------------------------------------------------------------- inputs
\* The records the general traces are built from.
RecLoad   == Rec(OP_LD,  TRUE,  0, FALSE, 0, FALSE, 0)   \* load writing r0
RecRmw    == Rec(OP_ALU, TRUE,  1, TRUE,  1, FALSE, 0)   \* r1 <- f(r1)
RecMov    == Rec(OP_ALU, TRUE,  0, FALSE, 0, TRUE,  1)   \* r0 <- f(r1), by src2
RecUse    == Rec(OP_ALU, FALSE, 0, TRUE,  0, TRUE,  1)   \* reads r0 and r1
RecBad    == Rec(NUM_OP_TYPES, FALSE, 0, FALSE, 0, FALSE, 0) \* op_type out of range

TraceRecs == {RecLoad, RecRmw, RecUse}

RECURSIVE TracesOfLen(_, _)
TracesOfLen(recs, n) ==
    IF n = 0 THEN {<< >>}
    ELSE {Append(t, r) : t \in TracesOfLen(recs, n - 1), r \in recs}

\* the traces of three records with the move in the middle
MovTraces == {<<a, RecMov, b>> : a, b \in TraceRecs \cup {RecMov}}

\* the well-formed traces: those of at most MaxInsts records over TraceRecs,
\* and MovTraces
Traces == UNION {TracesOfLen(TraceRecs, n) : n \in 0..MaxInsts} \cup MovTraces

\* t with the malformed record put in at position k
WithBadAt(t, k) == SubSeq(t, 1, k - 1) \o <<RecBad>> \o SubSeq(t, k, Len(t))

\* the traces of at most MaxInsts records that hold one malformed record
ErrTraces ==
    UNION {{WithBadAt(t, k) : k \in 1..(Len(t) + 1)} :
             t \in UNION {TracesOfLen({RecLoad, RecRmw}, n) : n \in 0..(MaxInsts - 1)}}

Input(w, r, pol, l, t) ==
    [width |-> w, rob |-> r, policy |-> pol, load |-> l, trace |-> t]

GeneralInputs ==
    {Input(w, r, pol, l, t) :
        w \in {1, MaxWidth}, r \in {1, 2, MaxRob},
        pol \in {SCHED_IN_ORDER, SCHED_OUT_OF_ORDER}, l \in {1, MaxLoad},
        t \in Traces \cup ErrTraces}

\* The scenarios of the specification, section 8.
RecNop    == Rec(OP_ALU, FALSE, 0, FALSE, 0, FALSE, 0)   \* no register needed
RecWr1    == Rec(OP_ALU, TRUE,  1, FALSE, 0, FALSE, 0)   \* dest r1, no sources
RecRd1    == Rec(OP_ALU, FALSE, 0, TRUE,  1, FALSE, 0)   \* src1 r1, no dest
RecLd1    == Rec(OP_LD,  TRUE,  1, FALSE, 0, FALSE, 0)   \* load writing r1
RecLdChain == Rec(OP_LD, TRUE,  1, TRUE,  1, FALSE, 0)   \* load r1 <- [r1]

TraceA == <<RecNop>>
TraceB == <<RecWr1, RecRd1>>
TraceC == <<RecLd1, RecRd1>>
TraceD == <<RecNop, RecNop>>
TraceE == <<RecLd1, RecLdChain, RecLdChain, RecLdChain, RecLdChain>>
TraceF == <<RecWr1, RecWr1, RecWr1, RecRd1>>

InputA == Input(1, 4, SCHED_IN_ORDER, 1, TraceA)
InputB == Input(1, 4, SCHED_IN_ORDER, 1, TraceB)
InputC == Input(1, 4, SCHED_IN_ORDER, 4, TraceC)
InputD(pol) == Input(2, 8, pol, 1, TraceD)
InputE(pol) == Input(1, 2, pol, 8, TraceE)
InputF(pol) == Input(2, 4, pol, 1, TraceF)

ScenarioInputs ==
    {InputA, InputB, InputC} \cup
    UNION {{InputD(pol), InputE(pol), InputF(pol)} :
             pol \in {SCHED_IN_ORDER, SCHED_OUT_OF_ORDER}}

\* A front end of two lanes before a ROB of one entry, five instructions:
\* issue takes one instruction per commit, decode fills one ID latch at a
\* time and the FE lanes come to hold the instructions out of lane order.
TraceG == <<RecLoad, RecRmw, RecMov, RecUse, RecRmw>>

InputG(pol) == Input(2, 1, pol, 1, TraceG)

StressInputs == {InputG(pol) : pol \in {SCHED_IN_ORDER, SCHED_OUT_OF_ORDER}}

Inputs == GeneralInputs \cup ScenarioInputs \cup StressInputs

\* ------------------------------------------------------------------ Init
\* pipe_init (with rat_init, rob_init, exeq_init); calloc zeroes the rest
pipe_init ==
    [FE_latch |-> [i \in 0..(PIPE_WIDTH - 1) |-> ZeroLatch],
     ID_latch |-> [i \in 0..(PIPE_WIDTH - 1) |-> ZeroLatch],
     SC_latch |-> [i \in 0..(PIPE_WIDTH - 1) |-> ZeroLatch],
     EX_latch |-> [i \in 0..(MAX_WRITEBACKS - 1) |-> ZeroLatch],
     rob |-> rob_init,
     rat |-> rat_init,
     exeq |-> exeq_init,
     stat_retired_inst |-> 0,
     stat_num_cycle |-> 0,
     last_inst_num |-> 0,
     halt_inst_num |-> HALT_INST_NUM_INIT,
     halt |-> FALSE]

NoStage == [fetch |-> 0, decode |-> 0, issue |-> 0, schedule |-> 0,
            exe |-> 0, writeback |-> 0, commit |-> 0]

NoSlot == [fe |-> -1, rob |-> -1]

\* the record of an instruction not fetched yet: nothing needed
NoRec == Rec(0, FALSE, 0, FALSE, 0, FALSE, 0)

\* no run is over yet
NoRun == [over |-> FALSE, cycles |-> 0, retired |-> 0, when |-> << >>]

h_init ==
    [commit_log |-> << >>,                          \* inst_num of every pipe_commit_inst call
     when |-> [n \in 1..Len(trace) |-> NoStage],    \* cycle in which each stage took the instruction
     wb_tags |-> {},                                \* dr_tag of the EX latches of the last writeback
     trace_err |-> FALSE,                           \* fetch met a record with a bad op_type
     rat_oob |-> FALSE,                             \* the RAT was indexed with -1
     rat_idx |-> {},                                \* every arf_id passed to a rat_* function
     slot |-> [n \in 1..Len(trace) |-> NoSlot],     \* FE lane and ROB index each instruction was put in
     rec |-> [n \in 1..Len(trace) |-> NoRec],       \* the record each instruction was fetched from
     run |-> 1,                                     \* 1 + the runs ended before this one in the process
     first |-> NoRun,                               \* the first run, once it is over
     exeq_full |-> FALSE]                           \* execute met a full EXEQ

Init ==
    \E in \in Inputs :
        /\ PIPE_WIDTH = in.width
        /\ NUM_ROB_ENTRIES = in.rob
        /\ SCHED_POLICY = in.policy
        /\ LOAD_EXE_CYCLES = in.load
        /\ trace = in.trace
        /\ trace_pos = 1
        /\ p = pipe_init
        /\ next_inst_num = 1
        /\ pc = "cycle"
        /\ h = h_init

\* --------------------------------------------------------------- actions
Config == <<PIPE_WIDTH, NUM_ROB_ENTRIES, SCHED_POLICY, LOAD_EXE_CYCLES, trace>>

\* res is the state a stage function returns
Becomes(res, next_pc) ==
    \E st \in {res} :
        /\ p' = st.p
        /\ h' = st.h
        /\ trace_pos' = st.trace_pos
        /\ next_inst_num' = st.next_inst_num
        /\ pc' = next_pc
        /\ UNCHANGED Config

\* what may lie in the RATEntry-sized memory before rat->entries[0] when the
\* commit stage reads it (it reads the RAT only if the head is ready)
OobCells ==
    IF rob_check_head(p.rob)
    THEN {[valid |-> FALSE, prf_id |-> 0]} \cup
         {[valid |-> TRUE, prf_id |-> t] : t \in 0..NUM_ROB_ENTRIES}
    ELSE {[valid |-> FALSE, prf_id |-> 0]}

\* the main loop: while (!p->halt) pipe_cycle(p); pipe_cycle, line 262
CycleBegin ==
    /\ pc = "cycle"
    /\ ~p.halt
    /\ p.stat_num_cycle < MaxCycles
    /\ Becomes([State EXCEPT !.p.stat_num_cycle = p.stat_num_cycle + 1], "commit")

Commit ==
    /\ pc = "commit"
    /\ \E oob \in OobCells : Becomes(pipe_cycle_commit(State, oob), "writeback")

Writeback ==
    /\ pc = "writeback"
    /\ Becomes(pipe_cycle_writeback(State), "exe")

Exe ==
    /\ pc = "exe"
    /\ Becomes(pipe_cycle_exe(State), "schedule")

Schedule ==
    /\ pc = "schedule"
    /\ Becomes(pipe_cycle_schedule(State), "issue")

Issue ==
    /\ pc = "issue"
    /\ Becomes(pipe_cycle_issue(State), "decode")

Decode ==
    /\ pc = "decode"
    /\ Becomes(pipe_cycle_decode(State), "fetch")

Fetch ==
    /\ pc = "fetch"
    /\ Becomes(pipe_cycle_fetch(State), "cycle")

Next ==
    \/ CycleBegin
    \/ Commit
    \/ Writeback
    \/ Exe
    \/ Schedule
    \/ Issue
    \/ Decode
    \/ Fetch

Spec == Init /\ [][Next]_vars

\* Two runs in one process: the runs of the scenarios of section 8, each
\* followed, once halt is seen, by a second pipe_init on the same trace
\* (trace_fd opened again) with the same parameters.  pipe_init builds a new
\* Pipeline; the static next_inst_num of pipe_cycle_decode is not part of it
\* and keeps its value.
TwoRunInit ==
    /\ Init
    /\ \E in \in ScenarioInputs : Config = <<in.width, in.rob, in.policy, in.load, in.trace>>

Restart ==
    /\ pc = "cycle"
    /\ p.halt
    /\ h.run = 1
    /\ p' = pipe_init
    /\ trace_pos' = 1
    /\ h' = [h_init EXCEPT !.run = 2,
                           !.first = [over |-> TRUE,
                                      cycles |-> p.stat_num_cycle,
                                      retired |-> p.stat_retired_inst,
                                      when |-> h.when]]
    /\ UNCHANGED <<next_inst_num, pc, Config>>

TwoRunNext == Next \/ Restart

TwoRunSpec == TwoRunInit /\ [][TwoRunNext]_vars

\* The ROB driven call by call, as rob.h offers it to any caller: rob_insert
\* whenever the caller likes (a full ROB included), rob_mark_exec and
\* rob_mark_ready of a valid entry, rob_remove_head of a ready head.  h is
\* the last call: its name, the ROB before it, its argument, its return
\* value, and the number of instructions inserted so far.
RobCall(name, before, arg, ret, count) ==
    [call |-> name, before |-> before, arg |-> arg, ret |-> ret, count |-> count]

RobInit ==
    /\ PIPE_WIDTH = 1
    /\ NUM_ROB_ENTRIES \in 1..MaxRob
    /\ SCHED_POLICY = SCHED_IN_ORDER
    /\ LOAD_EXE_CYCLES = 1
    /\ trace = << >>
    /\ trace_pos = 1
    /\ p = pipe_init
    /\ next_inst_num = 1
    /\ pc = "rob"
    /\ h = RobCall("rob_init", rob_init, ZeroInst, -1, 0)

\* the instructions a caller passes to rob_insert: numbered in sequence,
\* with or without destination, not renamed yet
RobInsertArgs ==
    {[ZeroInst EXCEPT !.inst_num = h.count + 1, !.dest_reg = d,
                      !.dr_tag = -1, !.src1_tag = -1, !.src2_tag = -1] : d \in {-1, 0}}

RobInsertCall ==
    /\ pc = "rob"
    /\ h.count < MaxRobInserts
    /\ \E inst \in RobInsertArgs :
          LET ins == rob_insert(p.rob, inst) IN
          /\ p' = [p EXCEPT !.rob = ins.rob]
          /\ h' = RobCall("rob_insert", p.rob, inst, ins.ret,
                          IF ins.ret # -1 THEN h.count + 1 ELSE h.count)
    /\ UNCHANGED <<Config, trace_pos, next_inst_num, pc>>

\* rob_mark_exec(rob, inst) with the instruction of a valid entry, dr_tag
\* set to its index as the issue stage sets it
RobMarkExecCall ==
    /\ pc = "rob"
    /\ \E i \in 0..(NUM_ROB_ENTRIES - 1) :
          /\ p.rob.entries[i].valid /\ ~p.rob.entries[i].exec
          /\ LET inst == [p.rob.entries[i].inst EXCEPT !.dr_tag = i] IN
             /\ p' = [p EXCEPT !.rob = rob_mark_exec(p.rob, inst)]
             /\ h' = RobCall("rob_mark_exec", p.rob, inst, -1, h.count)
    /\ UNCHANGED <<Config, trace_pos, next_inst_num, pc>>

RobMarkReadyCall ==
    /\ pc = "rob"
    /\ \E i \in 0..(NUM_ROB_ENTRIES - 1) :
          /\ p.rob.entries[i].valid /\ p.rob.entries[i].exec /\ ~p.rob.entries[i].ready
          /\ LET inst == [p.rob.entries[i].inst EXCEPT !.dr_tag = i] IN
             /\ p' = [p EXCEPT !.rob = rob_mark_ready(p.rob, inst)]
             /\ h' = RobCall("rob_mark_ready", p.rob, inst, -1, h.count)
    /\ UNCHANGED <<Config, trace_pos, next_inst_num, pc>>

RobRemoveHeadCall ==
    /\ pc = "rob"
    /\ rob_check_head(p.rob)
    /\ LET rm == rob_remove_head(p.rob) IN
       /\ p' = [p EXCEPT !.rob = rm.rob]
       /\ h' = RobCall("rob_remove_head", p.rob, rm.ret, -1, h.count)
    /\ UNCHANGED <<Config, trace_pos, next_inst_num, pc>>

RobNext ==
    \/ RobInsertCall
    \/ RobMarkExecCall
    \/ RobMarkReadyCall
    \/ RobRemoveHeadCall

RobSpec == RobInit /\ [][RobNext]_vars

\* ============================================================ properties
\* the run is over: the main loop has seen halt
Done == pc = "cycle" /\ p.halt

\* the run's inputs are those of in
IsIn(in) ==
    /\ PIPE_WIDTH = in.width
    /\ NUM_ROB_ENTRIES = in.rob
    /\ SCHED_POLICY = in.policy
    /\ LOAD_EXE_CYCLES = in.load
    /\ trace = in.trace

Slots == 0..(NUM_ROB_ENTRIES - 1)
InstNums == 1..Len(trace)
ValidSlots == {i \in Slots : p.rob.entries[i].valid}
RobFull == p.rob.head_ptr = p.rob.tail_ptr /\ p.rob.entries[p.rob.head_ptr].valid
RobEmpty == p.rob.head_ptr = p.rob.tail_ptr /\ ~p.rob.entries[p.rob.head_ptr].valid

\* The cut of the main loop at MaxCycles is never felt.
CycleCapUnused == pc = "cycle" /\ ~p.halt => p.stat_num_cycle < MaxCycles

\* C1: the inst_num values passed to pipe_commit_inst are 1, 2, 3, ... in
\* this order, whatever the trace, the configuration and the order of
\* execution.
C1_CommitOrder ==
    \A k \in 1..Len(h.commit_log) : h.commit_log[k] = k

\* three instructions committed, a younger one written back before an older
C1_Witness ==
    /\ Len(h.commit_log) >= 3
    /\ \E a, b \in InstNums :
          /\ a < b
          /\ h.when[b].commit > 0
          /\ h.when[b].writeback < h.when[a].writeback

\* C2: whenever RAT[r] is aliased to tag t, ROB slot t is valid and holds an
\* instruction with dest_reg == r (in every state between stages).
C2_RatConsistency ==
    \A r \in 0..(MAX_ARF_REGS - 1) :
        p.rat.entries[r].valid =>
            /\ p.rat.entries[r].prf_id \in Slots
            /\ p.rob.entries[p.rat.entries[r].prf_id].valid
            /\ p.rob.entries[p.rat.entries[r].prf_id].inst.dest_reg = r

\* a register aliased to a younger writer just after an older writer of the
\* same register was committed
C2_Witness ==
    /\ pc = "writeback"
    /\ \E r \in 0..(MAX_ARF_REGS - 1), i \in Slots :
          /\ p.rat.entries[r].valid
          /\ ~p.rob.entries[i].valid
          /\ p.rob.entries[i].inst.dest_reg = r
          /\ p.rob.entries[i].inst.inst_num >= 1
          /\ h.when[p.rob.entries[i].inst.inst_num].commit = p.stat_num_cycle

\* C3: the number of valid ROB slots is (tail_ptr - head_ptr) mod
\* NUM_ROB_ENTRIES when the ROB is not full, NUM_ROB_ENTRIES when it is full
\* and 0 when it is empty.
C3_RobBounds ==
    LET n == Cardinality(ValidSlots) IN
    /\ RobFull => n = NUM_ROB_ENTRIES
    /\ RobEmpty => n = 0
    /\ ~RobFull => n = (p.rob.tail_ptr - p.rob.head_ptr) % NUM_ROB_ENTRIES

\* a ROB of two slots or more that is full with the pointers wrapped around
C3_Witness ==
    /\ NUM_ROB_ENTRIES >= 2
    /\ RobFull
    /\ p.rob.head_ptr > 0

\* C4: right after the writeback stage has processed an EX latch with
\* destination tag t, no valid ROB entry has src1_tag == t with src1_ready
\* false, nor src2_tag == t with src2_ready false; a full ROB included.
C4_WakeupTotality ==
    pc = "exe" =>
        \A t \in h.wb_tags, i \in ValidSlots :
            /\ ~(p.rob.entries[i].inst.src1_tag = t /\ ~p.rob.entries[i].inst.src1_ready)
            /\ ~(p.rob.entries[i].inst.src2_tag = t /\ ~p.rob.entries[i].inst.src2_ready)

\* a full ROB (head_ptr == tail_ptr) in which the producer at slot t was just
\* written back and a younger valid entry names t as a needed source
C4_Witness ==
    /\ pc = "exe"
    /\ NUM_ROB_ENTRIES >= 2
    /\ RobFull
    /\ \E t \in h.wb_tags, i \in ValidSlots :
          /\ p.rob.entries[t].valid
          /\ p.rob.entries[t].inst.inst_num < p.rob.entries[i].inst.inst_num
          /\ \/ p.rob.entries[i].inst.src1_reg # -1 /\ p.rob.entries[i].inst.src1_tag = t
             \/ p.rob.entries[i].inst.src2_reg # -1 /\ p.rob.entries[i].inst.src2_tag = t

\* the (exec, ready) flags of slot i in ROB r
Flags(r, i) == <<r.entries[i].exec, r.entries[i].ready>>

\* C5: from insert to removal the (exec, ready) flags of a ROB slot go
\* (F,F) -> (T,F) -> (T,T): a valid entry is never ready without exec, exec
\* and ready are never cleared while the entry stays, an entry is inserted
\* as (F,F) and is removed only from (T,T).
C5_StepOK ==
    \A i \in Slots :
        LET was == p.rob.entries[i]
            now == p'.rob.entries[i]
        IN /\ now.valid => Flags(p'.rob, i) \in {<<FALSE, FALSE>>, <<TRUE, FALSE>>, <<TRUE, TRUE>>}
           /\ was.valid /\ now.valid =>
                 /\ was.exec => now.exec
                 /\ was.ready => now.ready
                 /\ Flags(p.rob, i) = <<FALSE, FALSE>> => Flags(p'.rob, i) # <<TRUE, TRUE>>
           /\ ~was.valid /\ now.valid => Flags(p'.rob, i) = <<FALSE, FALSE>>
           /\ was.valid /\ ~now.valid => Flags(p.rob, i) = <<TRUE, TRUE>>

C5_ExecMonotonicity == [][C5_StepOK]_vars

\* an entry that has reached (T,T) behind an older entry that has not
C5_Witness ==
    \E i, j \in ValidSlots :
        /\ p.rob.entries[j].inst.inst_num < p.rob.entries[i].inst.inst_num
        /\ Flags(p.rob, i) = <<TRUE, TRUE>>
        /\ Flags(p.rob, j) # <<TRUE, TRUE>>

\* every record of the trace has a valid op_type
WellFormed == \A k \in 1..Len(trace) : trace[k].op_type < NUM_OP_TYPES

\* C6: for a well-formed trace of N >= 1 records, whatever the configuration
\* (NUM_ROB_ENTRIES < PIPE_WIDTH included), the main loop reaches halt, and
\* halt is set only with stat_retired_inst == N.  Every step advances the
\* pair (stat_num_cycle, stage) and the loop is cut at MaxCycles, so a run
\* ends either halted or cut: the loop is never cut with halt still false.
C6_Termination ==
    (WellFormed /\ Len(trace) >= 1) =>
        /\ (pc = "cycle" /\ ~p.halt => p.stat_num_cycle < MaxCycles)
        /\ (p.halt => p.stat_retired_inst = Len(trace))

\* a halted run of three records or more through a ROB smaller than the
\* pipeline is wide, with multi-cycle loads
C6_Witness ==
    /\ WellFormed
    /\ Len(trace) >= 3
    /\ NUM_ROB_ENTRIES < PIPE_WIDTH
    /\ LOAD_EXE_CYCLES > 1
    /\ Done
    /\ p.stat_retired_inst = Len(trace)

\* C7: whenever halt is true after fetch has met a malformed record,
\* stat_retired_inst equals last_inst_num (every instruction fetched so far
\* has committed), also when valid records follow the malformed one.
C7_TraceErrorDrain ==
    p.halt /\ h.trace_err => p.stat_retired_inst = p.last_inst_num

\* the instructions stage took in cycle c
TakenIn(stage, c) == {n \in InstNums : h.when[n][stage] = c}

\* C8: in every cycle the instructions committed, those inserted into the
\* ROB by issue and those marked exec and put into SC latches by schedule are
\* each at most PIPE_WIDTH (a cycle in which a stage took nothing needs no
\* look: the cycles looked at are those in which some instruction was taken).
C8_WidthRespect ==
    \A stage \in {"commit", "issue", "schedule"}, n \in InstNums :
        h.when[n][stage] > 0 =>
            Cardinality(TakenIn(stage, h.when[n][stage])) <= PIPE_WIDTH

\* a commit stage that took PIPE_WIDTH instructions and left a ready head
C8_Witness ==
    /\ pc = "writeback"
    /\ Cardinality(TakenIn("commit", p.stat_num_cycle)) = PIPE_WIDTH
    /\ rob_check_head(p.rob)

\* C9: scenario (a): PIPE_WIDTH 1, NUM_ROB_ENTRIES 4, in order,
\* LOAD_EXE_CYCLES 1, one instruction without registers: the run halts in
\* cycle 7 with one instruction retired, which was fetched in cycle 1,
\* decoded in 2, issued in 3, scheduled in 4, executed in 5, written back in
\* 6 and committed in 7.
C9_ScenarioA ==
    IsIn(InputA) =>
        /\ p.stat_num_cycle <= 7
        /\ (pc = "cycle" /\ p.stat_num_cycle = 7 => p.halt)
        /\ (p.halt =>
              /\ p.stat_retired_inst = 1
              /\ p.stat_num_cycle = 7
              /\ h.when[1] = [fetch |-> 1, decode |-> 2, issue |-> 3, schedule |-> 4,
                              exe |-> 5, writeback |-> 6, commit |-> 7])

C9_Witness == IsIn(InputA) /\ Done

\* C10 as stated: scenario (b) halts with 2 retired in 8 cycles.
C10_Original ==
    IsIn(InputB) /\ p.halt => p.stat_retired_inst = 2 /\ p.stat_num_cycle = 8

\* C10, amended: scenario (b): PIPE_WIDTH 1, NUM_ROB_ENTRIES 4, in order,
\* LOAD_EXE_CYCLES 1, I1 writing r1 and I2 reading r1: the run halts in
\* cycle 9 with two instructions retired.
C10_ScenarioB ==
    IsIn(InputB) =>
        /\ p.stat_num_cycle <= 9
        /\ (pc = "cycle" /\ p.stat_num_cycle = 9 => p.halt)
        /\ (p.halt => p.stat_retired_inst = 2 /\ p.stat_num_cycle = 9)

\* the run of scenario (b) is over; I2 was scheduled in the cycle of I1's
\* writeback
C10_Witness ==
    /\ IsIn(InputB)
    /\ Done
    /\ h.when[2].schedule = h.when[1].writeback

\* C11 as stated: scenario (c) halts with 2 retired in 10 cycles.
C11_Original ==
    IsIn(InputC) /\ p.halt => p.stat_retired_inst = 2 /\ p.stat_num_cycle = 10

\* C11, amended: scenario (c): PIPE_WIDTH 1, NUM_ROB_ENTRIES 4, in order,
\* LOAD_EXE_CYCLES 4, I1 a load writing r1 and I2 a non-load reading r1, the
\* EXEQ counting a load down from LOAD_EXE_CYCLES (others from 1), once per
\* execute stage: the run halts in cycle 12 with two instructions retired.
C11_ScenarioC ==
    IsIn(InputC) =>
        /\ p.stat_num_cycle <= 12
        /\ (pc = "cycle" /\ p.stat_num_cycle = 12 => p.halt)
        /\ (p.halt => p.stat_retired_inst = 2 /\ p.stat_num_cycle = 12)

\* the run of scenario (c) is over; the load entered execute in cycle 5 and
\* was written back in cycle 9, I2 went through the EXEQ in cycle 10
C11_Witness ==
    /\ IsIn(InputC)
    /\ Done
    /\ h.when[1].exe = 5
    /\ h.when[1].writeback = 9
    /\ h.when[2].exe = 10

\* C12: scenario (d): PIPE_WIDTH 2, NUM_ROB_ENTRIES 8, LOAD_EXE_CYCLES 1, two
\* instructions without register dependencies, under either policy: both
\* are committed in the same cycle and the run halts in cycle 7 with two
\* instructions retired.
C12_ScenarioD ==
    \A pol \in {SCHED_IN_ORDER, SCHED_OUT_OF_ORDER} :
        IsIn(InputD(pol)) =>
            /\ p.stat_num_cycle <= 7
            /\ (pc = "cycle" /\ p.stat_num_cycle = 7 => p.halt)
            /\ (p.halt =>
                  /\ p.stat_retired_inst = 2
                  /\ p.stat_num_cycle = 7
                  /\ h.when[1].commit = 7
                  /\ h.when[2].commit = 7)

\* the run of scenario (d) is over, the two instructions went side by side
C12_Witness ==
    /\ \E pol \in {SCHED_IN_ORDER, SCHED_OUT_OF_ORDER} : IsIn(InputD(pol))
    /\ Done
    /\ h.when[1].schedule = h.when[2].schedule
    /\ h.commit_log = <<1, 2>>

\* C13: every arf_id the stages pass to rat_get_remap, rat_set_remap and
\* rat_reset_entry lies in [0, MAX_ARF_REGS); the sentinel -1 of an
\* instruction without destination (or source) is never a RAT index, the
\* commit stage included.
C13_RatIndexRange ==
    h.rat_idx \subseteq 0..(MAX_ARF_REGS - 1)

\* the record instruction n was fetched from (no register needed before the
\* fetch)
InstRec(n) == h.rec[n]

\* the ROB slots the commit stage frees in this step
CommittedSlots == {s \in Slots : p.rob.entries[s].valid /\ ~p'.rob.entries[s].valid}

\* C14: when commit removes a head instruction with destination register r
\* and tag t, RAT[r] is reset to unaliased iff RAT[r] was aliased to exactly
\* t; aliased to another tag it is left as it was, and so is every RAT entry
\* of a register no committed instruction writes.  (Over a commit stage: the
\* entries reset are those aliased to the tag of an instruction committed in
\* it that writes the register; nothing else of the RAT changes.)
C14_StepOK ==
    pc = "commit" =>
        \A r \in 0..(MAX_ARF_REGS - 1) :
            LET was == p.rat.entries[r]
                hit == \E s \in CommittedSlots :
                          /\ p.rob.entries[s].inst.dest_reg = r
                          /\ was.valid
                          /\ was.prf_id = p.rob.entries[s].inst.dr_tag
            IN p'.rat.entries[r] = IF hit THEN [was EXCEPT !.valid = FALSE] ELSE was

C14_WawCommit == [][C14_StepOK]_vars

\* after a commit stage: an instruction committed in it writes r, RAT[r] is
\* still aliased (to a younger writer of r), and an earlier writer of r has
\* committed as well
C14_Witness ==
    /\ pc = "writeback"
    /\ \E n, k \in InstNums :
          /\ k < n
          /\ h.when[n].commit = p.stat_num_cycle
          /\ h.when[k].commit > 0
          /\ InstRec(n).dest_needed /\ InstRec(k).dest_needed
          /\ InstRec(n).dest_reg = InstRec(k).dest_reg
          /\ p.rat.entries[InstRec(n).dest_reg].valid
          /\ p.rat.entries[InstRec(n).dest_reg].prf_id # h.slot[n].rob

\* the stages in pipeline order
StageOrder == <<"fetch", "decode", "issue", "schedule", "exe", "writeback", "commit">>

\* C15: for every instruction the cycles of its fetch, decode, issue,
\* schedule, entry to execute, writeback and commit are strictly increasing:
\* never scheduled in the cycle of its issue, never committed in the cycle
\* of its writeback.
C15_OneStagePerCycle ==
    \A n \in InstNums, k \in 1..(Len(StageOrder) - 1) :
        h.when[n][StageOrder[k + 1]] > 0 =>
            /\ h.when[n][StageOrder[k]] > 0
            /\ h.when[n][StageOrder[k]] < h.when[n][StageOrder[k + 1]]

\* a committed instruction that waited in the ROB: scheduled later than the
\* cycle after its issue, and spent more than one cycle in execute
C15_Witness ==
    \E n \in InstNums :
        /\ h.when[n].commit > 0
        /\ h.when[n].schedule > h.when[n].issue + 1
        /\ h.when[n].writeback > h.when[n].exe + 1

\* C16: two runs from pipe_init with the same trace and the same PIPE_WIDTH,
\* NUM_ROB_ENTRIES, SCHED_POLICY and LOAD_EXE_CYCLES pass through the same
\* states and halt with the same stat_num_cycle and stat_retired_inst.  Of
\* the second run against the first: every stage an instruction has taken,
\* it took in the cycle it did in the first run; every stage taken in the
\* first run before the current cycle has been taken; and at the cycle count
\* of the first run the second has halted with the same retired count.
C16_Determinism ==
    h.run = 2 =>
        /\ \A n \in InstNums, k \in 1..Len(StageOrder) :
              LET now == h.when[n][StageOrder[k]]
                  then == h.first.when[n][StageOrder[k]]
              IN /\ now > 0 => now = then
                 /\ (then > 0 /\ then < p.stat_num_cycle) => now = then
        /\ p.stat_num_cycle <= h.first.cycles
        /\ (pc = "cycle" /\ p.stat_num_cycle = h.first.cycles) =>
              (p.halt /\ p.stat_retired_inst = h.first.retired)

\* the valid ROB slots holding an instruction older than n that writes s
InFlightWriters(n, s) ==
    {j \in ValidSlots : /\ p.rob.entries[j].inst.inst_num < n
                        /\ p.rob.entries[j].inst.dest_reg = s}

\* the slot of W holding the youngest instruction
Youngest(W) ==
    CHOOSE j \in W : \A k \in W : p.rob.entries[k].inst.inst_num <= p.rob.entries[j].inst.inst_num

\* source s of instruction n was renamed to (tag, rdy) as C17 says
RenamedOK(n, s, tag, rdy) ==
    s # -1 =>
        LET W == InFlightWriters(n, s) IN
        IF W = {}
        THEN tag = -1 /\ rdy = TRUE
        ELSE /\ tag = Youngest(W)
             /\ rdy = p.rob.entries[Youngest(W)].ready

\* the valid ROB slots filled by the issue stage of the current cycle
IssuedNow ==
    {i \in ValidSlots : h.when[p.rob.entries[i].inst.inst_num].issue = p.stat_num_cycle}

\* C17: right after issue has inserted instruction I, for each needed source
\* register s of I, src_tag is the ROB index of the youngest instruction
\* older than I that is still in the ROB and writes s (never I itself), or -1
\* if there is none, and src_ready is true exactly when src_tag is -1 or
\* that producer's entry is ready.  (The issue stage changes no ready flag
\* and removes no entry, so the state after the stage shows each insert.)
C17_RenameCorrectness ==
    pc = "decode" =>
        \A i \in IssuedNow :
            LET inst == p.rob.entries[i].inst IN
            /\ RenamedOK(inst.inst_num, inst.src1_reg, inst.src1_tag, inst.src1_ready)
            /\ RenamedOK(inst.inst_num, inst.src2_reg, inst.src2_tag, inst.src2_ready)

\* just issued, in a run that has committed already: an instruction that
\* reads and writes the same register, renamed to an older in-flight writer
\* that is not ready yet
C17_Witness ==
    /\ pc = "decode"
    /\ \E i \in IssuedNow :
          LET inst == p.rob.entries[i].inst IN
          /\ inst.src1_reg # -1
          /\ inst.src1_reg = inst.dest_reg
          /\ inst.src1_tag \in Slots \ {i}
          /\ ~inst.src1_ready
    /\ h.commit_log # << >>

\* the source registers instruction n needs
NeededSrcs(n) ==
    (IF InstRec(n).src1_needed THEN {InstRec(n).src1_reg} ELSE {}) \cup
    (IF InstRec(n).src2_needed THEN {InstRec(n).src2_reg} ELSE {})

\* the instructions before n in program order that write register s
WritersBefore(n, s) ==
    {k \in 1..(n - 1) : InstRec(k).dest_needed /\ InstRec(k).dest_reg = s}

\* the youngest of them
LastWriter(n, s) == CHOOSE m \in WritersBefore(n, s) : \A k \in WritersBefore(n, s) : k <= m

\* the pairs <<n, m>>: m is the youngest instruction before n that writes a
\* source register n needs
Producers(n) ==
    {LastWriter(n, s) : s \in {r \in NeededSrcs(n) : WritersBefore(n, r) # {}}}

Dependences == UNION {{<<n, m>> : m \in Producers(n)} : n \in InstNums}

\* instruction m sits in the ROB, written back (its entry is marked ready)
ReadyInRob(m) ==
    /\ h.slot[m].rob \in Slots
    /\ p.rob.entries[h.slot[m].rob].valid
    /\ p.rob.entries[h.slot[m].rob].inst.inst_num = m
    /\ p.rob.entries[h.slot[m].rob].ready

\* C18: under both policies no instruction is marked exec by schedule
\* before, for each source register it needs, the youngest older instruction
\* that writes the register has been written back (its ROB entry marked
\* ready) or committed; a ROB index freed and taken again by a younger
\* instruction wakes no entry too early.  (Seen right after each schedule
\* stage, of the instructions it has just marked.)
C18_RawRespected ==
    pc = "issue" =>
        \A d \in Dependences :
            h.when[d[1]].schedule = p.stat_num_cycle =>
                \/ h.when[d[2]].commit > 0
                \/ ReadyInRob(d[2])

\* out of order, right after a schedule stage: a consumer just marked exec
\* after having waited in the ROB for its producer, both in ROB slots that
\* older instructions had held before them
C18_Witness ==
    /\ pc = "issue"
    /\ SCHED_POLICY = SCHED_OUT_OF_ORDER
    /\ \E d \in Dependences :
          /\ h.when[d[1]].schedule = p.stat_num_cycle
          /\ h.when[d[1]].schedule > h.when[d[1]].issue + 1
          /\ d[2] > NUM_ROB_ENTRIES
          /\ \E k \in InstNums : k < d[2] /\ h.slot[k].rob = h.slot[d[2]].rob

\* the pairs <<n, m>> of Dependences in which n was put into the ROB before m
\* was written back: n waits for the wakeup of m
Waiting ==
    {d \in Dependences :
        /\ h.when[d[1]].issue > 0
        /\ h.when[d[2]].writeback > 0
        /\ h.when[d[1]].issue < h.when[d[2]].writeback}

\* C19 as stated: a dependent that was waiting on a producer written back in
\* cycle t is not scheduled in cycle t, at the earliest in cycle t + 1.
C19_Original ==
    \A d \in Waiting :
        h.when[d[1]].schedule > 0 => h.when[d[1]].schedule > h.when[d[2]].writeback

\* C19, amended: a dependent that was waiting on a producer written back in
\* cycle t is not scheduled before cycle t; the schedule stage sees the
\* readiness at the earliest in cycle t itself (it runs after the writeback
\* stage of the cycle).
C19_WakeupToSchedule ==
    \A d \in Waiting :
        h.when[d[1]].schedule > 0 => h.when[d[1]].schedule >= h.when[d[2]].writeback

\* a dependent scheduled in the very cycle of the writeback it waited for
C19_Witness ==
    \E d \in Waiting : h.when[d[1]].schedule = h.when[d[2]].writeback

\* the pairs <<k, n>>, k older than n, put into the same ROB slot
SameRobSlot ==
    {d \in InstNums \X InstNums :
        d[1] < d[2] /\ h.slot[d[2]].rob # -1 /\ h.slot[d[1]].rob = h.slot[d[2]].rob}

\* the pairs <<k, n>>, k older than n, fetched into the same FE latch
SameFeLatch ==
    {d \in InstNums \X InstNums :
        d[1] < d[2] /\ h.slot[d[2]].fe # -1 /\ h.slot[d[1]].fe = h.slot[d[2]].fe}

\* C20 as stated: a slot freed by a downstream stage in cycle t is not
\* reused by an upstream stage in cycle t: the ROB slot invalidated by
\* commit is filled by issue in a later cycle only, the FE latch vacated by
\* decode is refilled by fetch in a later cycle only.
C20_Original ==
    /\ \A d \in SameRobSlot :
          h.when[d[1]].commit > 0 /\ h.when[d[1]].commit < h.when[d[2]].issue
    /\ \A d \in SameFeLatch :
          h.when[d[1]].decode > 0 /\ h.when[d[1]].decode < h.when[d[2]].fetch

\* C20, amended: a slot is reused by an upstream stage only once a
\* downstream stage has freed it, in the cycle t of the freeing at the
\* earliest (the upstream stage runs later in the cycle): the ROB slot
\* filled by issue was invalidated by commit in the same or an earlier
\* cycle, the FE latch filled by fetch was vacated by decode in the same or
\* an earlier cycle.
C20_SlotReuse ==
    /\ \A d \in SameRobSlot :
          h.when[d[1]].commit > 0 /\ h.when[d[1]].commit <= h.when[d[2]].issue
    /\ \A d \in SameFeLatch :
          h.when[d[1]].decode > 0 /\ h.when[d[1]].decode <= h.when[d[2]].fetch

\* a ROB slot filled by issue in the cycle in which commit freed it, and an
\* FE latch refilled by fetch in the cycle in which decode vacated it
C20_Witness ==
    /\ \E d \in SameRobSlot : h.when[d[1]].commit = h.when[d[2]].issue
    /\ \E d \in SameFeLatch : h.when[d[1]].decode = h.when[d[2]].fetch

\* the valid entries of ROB r not marked exec
NonExec(r) == {i \in Slots : r.entries[i].valid /\ ~r.entries[i].exec}

\* the slot of W (a non-empty set of valid slots of ROB r) holding the oldest
\* instruction
OldestOf(r, W) ==
    CHOOSE j \in W : \A k \in W : r.entries[j].inst.inst_num <= r.entries[k].inst.inst_num

\* entry i of ROB r has a needed source that is not ready
SrcPending(r, i) ==
    \/ r.entries[i].inst.src1_reg # -1 /\ ~r.entries[i].inst.src1_ready
    \/ r.entries[i].inst.src2_reg # -1 /\ ~r.entries[i].inst.src2_ready

\* in ROB r every valid entry older than an entry marked exec is marked exec
ExecPrefix(r) ==
    \A i, j \in Slots :
        (/\ r.entries[i].valid /\ r.entries[j].valid
         /\ r.entries[j].inst.inst_num < r.entries[i].inst.inst_num
         /\ r.entries[i].exec) => r.entries[j].exec

\* a schedule stage that starts with the oldest non-executing entry waiting
\* for a source marks no entry and fills no SC latch
C21_StepOK ==
    (/\ pc = "schedule"
     /\ SCHED_POLICY = SCHED_IN_ORDER
     /\ NonExec(p.rob) # {}
     /\ SrcPending(p.rob, OldestOf(p.rob, NonExec(p.rob))))
    => /\ NonExec(p'.rob) = NonExec(p.rob)
       /\ \A i \in 0..(PIPE_WIDTH - 1) : ~p'.SC_latch[i].valid

\* C21: under SCHED_IN_ORDER the entries marked exec are, in every reachable
\* state, a prefix of the ROB from the head (every valid entry older than an
\* entry marked exec is marked exec); and when the oldest non-executing valid
\* entry has a needed source not ready, the schedule stage marks no entry in
\* any lane and leaves every SC latch invalid.
C21_InOrderPolicy ==
    /\ [](SCHED_POLICY = SCHED_IN_ORDER => ExecPrefix(p.rob))
    /\ [][C21_StepOK]_vars

\* in order, two lanes, right after a schedule stage that marked nothing: the
\* oldest non-executing entry waits for a source behind an executing entry,
\* and a younger entry with every needed source ready waits behind it
C21_Witness ==
    /\ pc = "issue"
    /\ SCHED_POLICY = SCHED_IN_ORDER
    /\ PIPE_WIDTH >= 2
    /\ NonExec(p.rob) # {}
    /\ SrcPending(p.rob, OldestOf(p.rob, NonExec(p.rob)))
    /\ \E i \in NonExec(p.rob) : ~SrcPending(p.rob, i)
    /\ \E i \in ValidSlots : p.rob.entries[i].exec /\ ~p.rob.entries[i].ready
    /\ \A n \in InstNums : h.when[n].schedule # p.stat_num_cycle

\* the place of slot i of ROB r in the walk from head_ptr
Pos(r, i) == (i - r.head_ptr) % NUM_ROB_ENTRIES

\* the valid, non-executing entries of ROB r whose needed sources are ready
Schedulable(r) == {i \in NonExec(r) : ~SrcPending(r, i)}

\* the number of schedulable entries of ROB r met before slot i from the head
Rank(r, i) == Cardinality({j \in Schedulable(r) : Pos(r, j) < Pos(r, i)})

\* a schedule stage under SCHED_OUT_OF_ORDER: the entries it marks are the
\* schedulable ones of rank below PIPE_WIDTH, the one of rank k goes to SC
\* latch k, and the lanes beyond the last of them are left invalid
C22_StepOK ==
    (pc = "schedule" /\ SCHED_POLICY = SCHED_OUT_OF_ORDER) =>
        LET R == Schedulable(p.rob)
            Chosen == {i \in R : Rank(p.rob, i) < PIPE_WIDTH}
        IN /\ NonExec(p.rob) \ NonExec(p'.rob) = Chosen
           /\ \A i \in Slots \ Chosen : p'.rob.entries[i] = p.rob.entries[i]
           /\ \A i \in Chosen :
                 /\ p'.rob.entries[i] = [p.rob.entries[i] EXCEPT !.exec = TRUE]
                 /\ p'.SC_latch[Rank(p.rob, i)].valid
                 /\ p'.SC_latch[Rank(p.rob, i)].inst = p.rob.entries[i].inst
           /\ \A k \in 0..(PIPE_WIDTH - 1) :
                 k >= Cardinality(Chosen) => ~p'.SC_latch[k].valid

\* C22: under SCHED_OUT_OF_ORDER each schedule stage marks exec and places
\* into SC latches exactly the min(PIPE_WIDTH, k) oldest (in ROB order from
\* the head) of the k valid, non-executing entries whose needed sources are
\* all ready at the start of the stage; an older entry that is not ready
\* blocks no ready younger one, and an SC lane is left invalid only when no
\* such entry remains.
C22_OutOfOrderPolicy == [][C22_StepOK]_vars

\* out of order, two lanes, right after a schedule stage: an instruction was
\* scheduled past an older entry that still waits for a source, and the
\* second lane is left invalid
C22_Witness ==
    /\ pc = "issue"
    /\ SCHED_POLICY = SCHED_OUT_OF_ORDER
    /\ PIPE_WIDTH >= 2
    /\ p.SC_latch[0].valid
    /\ ~p.SC_latch[1].valid
    /\ \E i \in NonExec(p.rob) :
          /\ SrcPending(p.rob, i)
          /\ p.rob.entries[i].inst.inst_num < p.SC_latch[0].inst.inst_num

\* the inst_num of the valid ID latches of ID
ValidID(ID) == {ID[i].inst.inst_num : i \in {k \in 0..(PIPE_WIDTH - 1) : ID[k].valid}}

\* the inst_num of the valid entries of ROB r
InRob(r) == {r.entries[i].inst.inst_num : i \in {k \in Slots : r.entries[k].valid}}

\* the instructions an issue stage has put into the ROB and those it has left
\* in the ID latches
Inserted == InRob(p'.rob) \ InRob(p.rob)
LeftInID == ValidID(p'.ID_latch)

\* an issue stage: what it inserts is older than what it leaves behind, it
\* leaves an instruction behind only with the ROB full and the latch (and
\* every latch after it) marked stalled, and what it inserts is younger than
\* every instruction that entered the ROB before and enters in ascending
\* order
C23_StepOK ==
    pc = "issue" =>
        /\ ValidID(p.ID_latch) = Inserted \cup LeftInID
        /\ \A a \in Inserted, b \in LeftInID : a < b
        /\ LeftInID # {} => ~rob_check_space(p'.rob)
        /\ \A i, k \in 0..(PIPE_WIDTH - 1) :
              (p'.ID_latch[i].valid /\ i <= k) => p'.ID_latch[k].stall
        /\ \A i, k \in 0..(PIPE_WIDTH - 1) :
              (p'.ID_latch[i].valid /\ p'.ID_latch[k].valid /\ i < k) =>
                  p'.ID_latch[i].inst.inst_num < p'.ID_latch[k].inst.inst_num
        /\ \A a \in Inserted, n \in InstNums : h.when[n].issue > 0 => n < a
        /\ \A a, b \in Inserted :
              a < b => Pos(p'.rob, h'.slot[a].rob) < Pos(p'.rob, h'.slot[b].rob)

\* C23: within one issue stage the ID latches are taken in ascending inst_num
\* order; once a valid one cannot be inserted because the ROB has no space,
\* it and every later one are marked stalled and none of them enters the ROB
\* in that cycle; so instructions enter the ROB in strictly ascending
\* inst_num order over the whole run.
C23_IssueStall == [][C23_StepOK]_vars

\* right after an issue stage of two lanes or more that inserted one
\* instruction and stalled the next one on a full ROB
C23_Witness ==
    /\ pc = "decode"
    /\ PIPE_WIDTH >= 2
    /\ RobFull
    /\ \E n \in InstNums : h.when[n].issue = p.stat_num_cycle
    /\ \E i \in 0..(PIPE_WIDTH - 1) : p.ID_latch[i].valid /\ p.ID_latch[i].stall

\* the instructions a decode stage has moved into ID latches
Decoded == ValidID(p'.ID_latch) \ ValidID(p.ID_latch)

\* the ID latch of p' holding instruction n
IDLaneOf(n) ==
    CHOOSE i \in 0..(PIPE_WIDTH - 1) : p'.ID_latch[i].valid /\ p'.ID_latch[i].inst.inst_num = n

\* a decode stage: the instructions it moves are the next ones in trace
\* order, without gap, each out of a valid FE latch into an ID latch that was
\* invalid and not stalled, the older into the lower lane; every other ID
\* latch is left as it was
C24_StepOK ==
    pc = "decode" =>
        /\ Decoded = next_inst_num..(next_inst_num' - 1)
        /\ \A n \in Decoded :
              /\ ~p.ID_latch[IDLaneOf(n)].valid
              /\ ~p.ID_latch[IDLaneOf(n)].stall
              /\ p.FE_latch[h.slot[n].fe].valid
              /\ p.FE_latch[h.slot[n].fe].inst.inst_num = n
              /\ ~p'.FE_latch[h.slot[n].fe].valid
              /\ p'.ID_latch[IDLaneOf(n)].inst = p.FE_latch[h.slot[n].fe].inst
        /\ \A a, b \in Decoded : a < b => IDLaneOf(a) < IDLaneOf(b)
        /\ \A i \in 0..(PIPE_WIDTH - 1) :
              (p.ID_latch[i].valid \/ p.ID_latch[i].stall) => p'.ID_latch[i] = p.ID_latch[i]

\* C24: over the run the inst_num values decode moves from FE latches into
\* ID latches are 1, 2, 3, ... in this order (the instructions decoded so far
\* are those below next_inst_num, none decoded in an earlier cycle than an
\* older one), whatever FE lane each was fetched into; decode moves an
\* instruction only into an ID latch that is empty and not stalled and never
\* overwrites a valid ID latch.
C24_DecodeOrder ==
    /\ [](/\ next_inst_num >= 1
          /\ {n \in InstNums : h.when[n].decode > 0} = 1..(next_inst_num - 1)
          /\ \A a, b \in InstNums :
                (a < b /\ h.when[b].decode > 0) => h.when[a].decode <= h.when[b].decode)
    /\ [][C24_StepOK]_vars

\* right after a decode stage that filled one ID latch and left a valid,
\* stalled one alone: the instruction it moved came out of an FE lane above
\* a lane that holds a younger instruction
C24_Witness ==
    /\ pc = "fetch"
    /\ \E b \in InstNums, j \in 0..(PIPE_WIDTH - 1) :
          /\ h.when[b].decode = p.stat_num_cycle
          /\ j < h.slot[b].fe
          /\ p.FE_latch[j].valid
          /\ p.FE_latch[j].inst.inst_num > b
    /\ \E i \in 0..(PIPE_WIDTH - 1) :
          /\ p.ID_latch[i].valid /\ p.ID_latch[i].stall
          /\ h.when[p.ID_latch[i].inst.inst_num].decode < p.stat_num_cycle

\* ROB r is full: head_ptr == tail_ptr and the head slot valid
FullRob(r) == r.head_ptr = r.tail_ptr /\ r.entries[r.head_ptr].valid

\* C25: rob_insert called on a full ROB (head_ptr == tail_ptr, head slot
\* valid) returns -1 and leaves head_ptr, tail_ptr and every slot unchanged;
\* otherwise it writes the instruction at the old tail_ptr with valid true,
\* exec false and ready false, advances tail_ptr by one modulo
\* NUM_ROB_ENTRIES, leaves head_ptr and the other slots alone and returns
\* the old tail_ptr.
C25_RobInsert ==
    h.call = "rob_insert" =>
        IF FullRob(h.before)
        THEN h.ret = -1 /\ p.rob = h.before
        ELSE /\ h.ret = h.before.tail_ptr
             /\ p.rob.entries[h.ret] =
                   [valid |-> TRUE, exec |-> FALSE, ready |-> FALSE, inst |-> h.arg]
             /\ p.rob.tail_ptr = (h.before.tail_ptr + 1) % NUM_ROB_ENTRIES
             /\ p.rob.head_ptr = h.before.head_ptr
             /\ \A i \in (0..(NUM_ROB_ENTRIES - 1)) \ {h.ret} :
                   p.rob.entries[i] = h.before.entries[i]

\* rob_insert has just been called on a full ROB of two slots or more whose
\* pointers had wrapped around
C25_Witness ==
    /\ h.call = "rob_insert"
    /\ NUM_ROB_ENTRIES >= 2
    /\ FullRob(h.before)
    /\ h.before.head_ptr > 0
    /\ h.ret = -1

\* a needed source (register reg, renamed to tag) of the valid entry i that
\* is not ready has its producer pending in the ROB
ProducerPending(i, reg, tag) ==
    /\ tag # -1
    /\ tag \in Slots \ {i}
    /\ p.rob.entries[tag].valid
    /\ ~p.rob.entries[tag].ready
    /\ p.rob.entries[tag].inst.inst_num < p.rob.entries[i].inst.inst_num
    /\ p.rob.entries[tag].inst.dest_reg = reg

\* C26: between cycles, for every valid ROB entry e and each needed source of
\* e with src_ready false, src_tag is not -1 and ROB[src_tag] is valid, not
\* ready, holds an instruction older than e (src_tag is not e's own index)
\* whose dest_reg is e's source register: the producer e waits for is still
\* to be written back and will broadcast the wakeup.
C26_NoLostWakeup ==
    pc = "cycle" =>
        \A i \in ValidSlots :
            LET inst == p.rob.entries[i].inst IN
            /\ (inst.src1_reg # -1 /\ ~inst.src1_ready) =>
                   ProducerPending(i, inst.src1_reg, inst.src1_tag)
            /\ (inst.src2_reg # -1 /\ ~inst.src2_ready) =>
                   ProducerPending(i, inst.src2_reg, inst.src2_tag)

\* between cycles, after a commit: an entry waits by src2 for a producer
\* that executes in a ROB slot above its own (the pointers have wrapped)
C26_Witness ==
    /\ pc = "cycle"
    /\ h.commit_log # << >>
    /\ \E i \in ValidSlots :
          /\ p.rob.entries[i].inst.src2_reg # -1
          /\ ~p.rob.entries[i].inst.src2_ready
          /\ p.rob.entries[i].inst.src2_tag > i
          /\ p.rob.entries[p.rob.entries[i].inst.src2_tag].exec

\* the valid ROB slots whose instruction writes register r
WritersInRob(r) == {i \in ValidSlots : p.rob.entries[i].inst.dest_reg = r}

\* C27: between cycles, for every architectural register r, RAT[r] is
\* aliased if and only if some valid ROB entry has dest_reg == r, and when
\* aliased its tag is the index of the youngest (largest inst_num) such
\* entry.
C27_RatCompleteness ==
    pc = "cycle" =>
        \A r \in 0..(MAX_ARF_REGS - 1) :
            /\ p.rat.entries[r].valid <=> WritersInRob(r) # {}
            /\ p.rat.entries[r].valid =>
                   p.rat.entries[r].prf_id = Youngest(WritersInRob(r))

\* between cycles, after a commit: a register with two writers in the ROB,
\* the RAT naming the younger one, in a slot below the older one's
C27_Witness ==
    /\ pc = "cycle"
    /\ h.commit_log # << >>
    /\ \E r \in 0..(MAX_ARF_REGS - 1) :
          /\ Cardinality(WritersInRob(r)) >= 2
          /\ p.rat.entries[r].valid
          /\ \E i \in WritersInRob(r) : p.rat.entries[r].prf_id < i

Lanes == 0..(PIPE_WIDTH - 1)

\* the number of places that hold instruction n: valid FE latches, valid ID
\* latches, valid ROB slots, and the commit log
Places(n) ==
    Cardinality({i \in Lanes : p.FE_latch[i].valid /\ p.FE_latch[i].inst.inst_num = n})
    + Cardinality({i \in Lanes : p.ID_latch[i].valid /\ p.ID_latch[i].inst.inst_num = n})
    + Cardinality({i \in ValidSlots : p.rob.entries[i].inst.inst_num = n})
    + Cardinality({k \in 1..Len(h.commit_log) : h.commit_log[k] = n})

\* C28: at the end of every cycle each instruction number in
\* 1..last_inst_num is in exactly one place, a valid FE latch, a valid ID
\* latch, a valid ROB slot or retired, and last_inst_num ==
\* stat_retired_inst + #valid FE latches + #valid ID latches + #valid ROB
\* slots: the decode search, the sort of the ID latches and the stalls drop
\* and duplicate no fetched instruction.
C28_Conservation ==
    pc = "cycle" =>
        /\ \A n \in 1..p.last_inst_num : Places(n) = 1
        /\ p.stat_retired_inst = Len(h.commit_log)
        /\ p.last_inst_num =
              p.stat_retired_inst
              + Cardinality({i \in Lanes : p.FE_latch[i].valid})
              + Cardinality({i \in Lanes : p.ID_latch[i].valid})
              + Cardinality(ValidSlots)

\* the end of a cycle with instructions in all four places; in the ID
\* latches a stalled instruction sits in a lane above a younger one that
\* decode has put beside it
C28_Witness ==
    /\ pc = "cycle"
    /\ p.stat_retired_inst >= 1
    /\ ValidSlots # {}
    /\ \E i \in Lanes : p.FE_latch[i].valid
    /\ \E i, j \in Lanes :
          /\ i < j
          /\ p.ID_latch[i].valid
          /\ p.ID_latch[j].valid /\ p.ID_latch[j].stall
          /\ p.ID_latch[i].inst.inst_num > p.ID_latch[j].inst.inst_num

\* the valid ROB entries in execution: marked exec, not ready yet
Executing == {i \in ValidSlots : p.rob.entries[i].exec /\ ~p.rob.entries[i].ready}

\* the instructions between schedule and writeback: in valid SC latches, in
\* the EXEQ, in valid EX latches
InSC == {i \in Lanes : p.SC_latch[i].valid}
InEX == {i \in 0..(MAX_WRITEBACKS - 1) : p.EX_latch[i].valid}

\* the number of them that carry dr_tag t and the instruction number n
Carriers(t, n) ==
    Cardinality({i \in InSC : p.SC_latch[i].inst.dr_tag = t /\ p.SC_latch[i].inst.inst_num = n})
    + Cardinality({e \in p.exeq : e.dr_tag = t /\ e.inst_num = n})
    + Cardinality({i \in InEX : p.EX_latch[i].inst.dr_tag = t /\ p.EX_latch[i].inst.inst_num = n})

\* C29: at the end of every cycle the valid ROB entries with exec true and
\* ready false correspond one to one (by dr_tag) to the instructions in
\* valid SC latches, in the EXEQ and in valid EX latches; no SC latch is
\* valid when schedule starts to fill them and no EX latch when execute
\* does, so none is overwritten while valid; the EXEQ never holds more than
\* NUM_ROB_ENTRIES entries and execute never meets a full EXEQ.
C29_ExecConservation ==
    /\ pc = "cycle" =>
          /\ \A i \in Executing : Carriers(i, p.rob.entries[i].inst.inst_num) = 1
          /\ Cardinality(InSC) + Cardinality(p.exeq) + Cardinality(InEX)
                = Cardinality(Executing)
    /\ pc = "schedule" => InSC = {}
    /\ pc = "exe" => InEX = {}
    /\ Cardinality(p.exeq) <= NUM_ROB_ENTRIES
    /\ ~h.exeq_full

\* the end of a cycle with an instruction in each of the three places: one
\* just scheduled, one waiting in the EXEQ, one just executed
C29_Witness ==
    /\ pc = "cycle"
    /\ InSC # {}
    /\ p.exeq # {}
    /\ InEX # {}
    /\ Cardinality(Executing) >= 3

\* the number of entries between head_ptr and tail_ptr
RobCount ==
    IF RobFull THEN NUM_ROB_ENTRIES
    ELSE (p.rob.tail_ptr - p.rob.head_ptr) % NUM_ROB_ENTRIES

\* the k-th slot in the walk from head_ptr (k from 0)
RobAt(k) == (p.rob.head_ptr + k) % NUM_ROB_ENTRIES

\* the slots from head_ptr up to but excluding tail_ptr
RobRange == {RobAt(k) : k \in 0..(RobCount - 1)}

\* C30: in every reachable state the valid ROB slots are exactly the slots
\* from head_ptr up to but excluding tail_ptr modulo NUM_ROB_ENTRIES (all of
\* them when the ROB is full), every slot outside is invalid with exec and
\* ready clear, and in the walk from head_ptr towards tail_ptr the inst_num
\* values are consecutive and increasing, each entry's dr_tag being its own
\* slot index.
C30_RobContiguity ==
    /\ ValidSlots = RobRange
    /\ \A i \in Slots \ RobRange :
          ~p.rob.entries[i].valid /\ ~p.rob.entries[i].exec /\ ~p.rob.entries[i].ready
    /\ \A k \in 0..(RobCount - 2) :
          p.rob.entries[RobAt(k + 1)].inst.inst_num = p.rob.entries[RobAt(k)].inst.inst_num + 1
    /\ \A i \in RobRange : p.rob.entries[i].inst.dr_tag = i

\* after a commit: a ROB with the pointers wrapped around (tail_ptr at or
\* below head_ptr), two entries or more and a free slot
C30_Witness ==
    /\ p.rob.head_ptr > 0
    /\ p.rob.tail_ptr <= p.rob.head_ptr
    /\ RobCount >= 2
    /\ RobCount < NUM_ROB_ENTRIES
    /\ h.commit_log # << >>

\* C31: when the trace holds no record, the first pipe_cycle sets
\* halt_inst_num to 0 and halt in its fetch stage (no earlier stage sets
\* it), so the run ends with stat_num_cycle == 1 and stat_retired_inst == 0,
\* and no instruction number is ever assigned: last_inst_num stays 0, no
\* latch and no ROB slot ever becomes valid, nothing is committed.
C31_EmptyTrace ==
    Len(trace) = 0 =>
        /\ p.stat_num_cycle <= 1
        /\ (p.halt <=> (pc = "cycle" /\ p.stat_num_cycle = 1))
        /\ (p.halt => p.halt_inst_num = 0)
        /\ (~p.halt => p.halt_inst_num = HALT_INST_NUM_INIT)
        /\ p.stat_retired_inst = 0
        /\ p.last_inst_num = 0
        /\ next_inst_num = 1
        /\ h.commit_log = << >>
        /\ ValidSlots = {}
        /\ \A i \in 0..(PIPE_WIDTH - 1) :
              ~p.FE_latch[i].valid /\ ~p.ID_latch[i].valid /\ ~p.SC_latch[i].valid

\* the run on an empty trace is over after one cycle, with a fetch stage of
\* two lanes or more that met the end of the trace in each lane
C31_Witness ==
    /\ Len(trace) = 0
    /\ PIPE_WIDTH >= 2
    /\ Done
    /\ p.stat_num_cycle = 1
    /\ p.halt_inst_num = 0

====
